---- MODULE Spec2Model ----
(***************************************************************************)
(* State-machine model of TCurlyArc (graf2d/graf/src/TCurlyArc.cxx).       *)
(*                                                                         *)
(* Numbers.  A Double_t logical coordinate is an exact integer number of   *)
(* ticks; one pixel column is Unit ticks wide, and Unit is a power of four *)
(* large enough that the halvings and aspect divisions done by MaxSteps    *)
(* bounding-box edits are exact.  Angles are whole degrees.  Int_t(v) is   *)
(* truncation toward zero.                                                 *)
(***************************************************************************)
EXTENDS Integers, Sequences, FiniteSets, TLC

\* ------------------------------------------------------------------ bounds
MaxSteps == 3       \* operations (setter calls, events) per behaviour

\* ------------------------------------------------------------- arithmetic
RECURSIVE Pow4(_)
Pow4(n) == IF n = 0 THEN 1 ELSE 4 * Pow4(n - 1)

Unit == Pow4(MaxSteps)

Abs(v) == IF v < 0 THEN -v ELSE v

\* Int_t(n / d) for d > 0: C++ conversion truncates toward zero
TruncDiv(n, d) == IF n >= 0 THEN n \div d ELSE -((-n) \div d)

\* ------------------------------------------------------- the host surface
\* A pad that fills its canvas: PadW x PadH pixels, Unit ticks per pixel
\* column and 2*Unit ticks per pixel row, so |yrange/xrange| = 2.
PadW == 64
PadH == 64

GetX1 == 0
GetX2 == PadW * Unit
GetY1 == 0
GetY2 == PadH * 2 * Unit

fPixeltoX == (GetX2 - GetX1) \div PadW
fPixeltoY == -((GetY2 - GetY1) \div PadH)

XtoAbsPixel(x) == TruncDiv(x - GetX1, fPixeltoX)
YtoAbsPixel(y) == TruncDiv(GetY2 - y, -fPixeltoY)
XtoPixel(x)    == TruncDiv(x - GetX1, fPixeltoX)
YtoPixel(y)    == TruncDiv(GetY2 - y, -fPixeltoY)
AbsPixeltoX(px) == GetX1 + px * fPixeltoX
AbsPixeltoY(py) == GetY2 + py * fPixeltoY
PixeltoX(px)    == GetX1 + px * fPixeltoX
\* PixeltoY takes a row counted from the bottom of the pad (py <= 0)
PixeltoY(py)    == GetY1 + py * fPixeltoY
VtoPixel0       == PadH

\* ------------------------------------------------------------------ state
VARIABLES
    arc,        \* arc id -> the fields of that TCurlyArc
    st,         \* the function-local statics of ExecuteEvent
    gPad,       \* TRUE iff a pad is attached
    opaque,     \* gPad->OpaqueMoving()
    fgDefault,  \* fgDefaultWaveLength, fgDefaultAmplitude, fgDefaultIsCurly
    phase,      \* arc id -> "idle" | "drag": the host's event protocol
    saved,      \* arc id -> the statics as that arc's last event left them
    ev,         \* the last operation and its arguments
    ret,        \* the value the last operation returned
    out,        \* the statements SavePrimitive wrote
    edits,      \* bounding-box edge edits so far
    steps,      \* operations so far
    cursor,     \* the cursor icon last set on the pad
    gVirtualX,  \* what the last event drew in XOR mode, and what shows
    shadow,     \* the statics, had the last down event found other values
    anchor      \* the cursor position and the statics at the last down event

vars == <<arc, st, gPad, opaque, fgDefault, phase, saved, ev, ret, out, edits,
          steps, cursor, gVirtualX, shadow, anchor>>

\* ------------------------------------------------------------------ Build
\* Dang with the wrap applied to every sweep that is not positive
Dang_WrapZero(f) ==
    LET dang == f.fPhimax - f.fPhimin
    IN  IF dang <= 0 THEN dang + 360 ELSE dang

\* sweep of the arc in degrees, as Build computes it
Dang(f) ==
    LET dang == f.fPhimax - f.fPhimin
    IN  IF dang < 0 THEN dang + 360 ELSE dang

\* The polyline is a function of the fields and of the pad scale read at
\* the time of the call; it is kept as the values it was computed from.
Polyline(f, pad) ==
    [x |-> f.fX1, y |-> f.fY1, r |-> f.fR1,
     phimin |-> f.fPhimin, dang |-> Dang(f),
     wl |-> f.fWaveLength, amp |-> f.fAmplitude, curly |-> f.fIsCurly,
     pixeltoX |-> IF pad THEN fPixeltoX ELSE 1]

Build(f, pad) == [f EXCEPT !.poly = Polyline(f, pad)]

\* the constructor with the amplitude taken from the wavelength argument
Ctor_AmpFromWl(x1, y1, rad, phimin, phimax, wl, amp, defIsCurly, pad) ==
    Build([fX1 |-> x1, fY1 |-> y1, fR1 |-> rad,
           fPhimin |-> phimin, fPhimax |-> phimax,
           fWaveLength |-> wl, fAmplitude |-> wl, fIsCurly |-> defIsCurly,
           poly |-> [x |-> 0, y |-> 0, r |-> 0, phimin |-> 0, dang |-> 0,
                     wl |-> 0, amp |-> 0, curly |-> TRUE, pixeltoX |-> 1]],
          pad)

\* TCurlyArc(x1, y1, rad, phimin, phimax, wl, amp)
Ctor(x1, y1, rad, phimin, phimax, wl, amp, defIsCurly, pad) ==
    Build([fX1 |-> x1, fY1 |-> y1, fR1 |-> rad,
           fPhimin |-> phimin, fPhimax |-> phimax,
           fWaveLength |-> wl, fAmplitude |-> amp, fIsCurly |-> defIsCurly,
           poly |-> [x |-> 0, y |-> 0, r |-> 0, phimin |-> 0, dang |-> 0,
                     wl |-> 0, amp |-> 0, curly |-> TRUE, pixeltoX |-> 1]],
          pad)

\* TCurlyLine(): the base object of a default-constructed arc, zeroed and
\* with no polyline built
TCurlyLine0 ==
    [fX1 |-> 0, fY1 |-> 0, fR1 |-> 0, fPhimin |-> 0, fPhimax |-> 0,
     fWaveLength |-> 0, fAmplitude |-> 0, fIsCurly |-> FALSE,
     poly |-> [x |-> 0, y |-> 0, r |-> 0, phimin |-> 0, dang |-> 0,
               wl |-> 0, amp |-> 0, curly |-> TRUE, pixeltoX |-> 1]]

\* TCurlyArc()
Ctor0(base) == [base EXCEPT !.fR1 = 0, !.fPhimin = 0, !.fPhimax = 0]

\* TCurlyArc(x1, y1, rad, phimin, phimax) with wl and amp left to their
\* default arguments, which are the process-wide defaults at the call
Ctor5(x1, y1, rad, phimin, phimax, fg, pad) ==
    Ctor(x1, y1, rad, phimin, phimax,
         fg.fgDefaultWaveLength, fg.fgDefaultAmplitude,
         fg.fgDefaultIsCurly, pad)

\* the polyline the current fields call for
Current(f) == f.poly.x = f.fX1 /\ f.poly.y = f.fY1 /\ f.poly.r = f.fR1
              /\ f.poly.phimin = f.fPhimin /\ f.poly.dang = Dang(f)

\* ---------------------------------------------------------------- setters
SetCenter(f, x, y, pad) == Build([f EXCEPT !.fX1 = x, !.fY1 = y], pad)
SetRadius(f, x, pad)    == Build([f EXCEPT !.fR1 = x], pad)
SetPhimin(f, x, pad)    == Build([f EXCEPT !.fPhimin = x], pad)
SetPhimax(f, x, pad)    == Build([f EXCEPT !.fPhimax = x], pad)

\* TCurlyLine::SetStartPoint, TCurlyLine::SetWavy, TCurlyLine::SetCurly
SetStartPoint(f, x, y, pad) == Build([f EXCEPT !.fX1 = x, !.fY1 = y], pad)
SetWavy(f, pad)  == Build([f EXCEPT !.fIsCurly = FALSE], pad)
SetCurly(f, pad) == Build([f EXCEPT !.fIsCurly = TRUE], pad)

\* ----------------------------------------------------------- bounding box
\* |yrange| / |xrange| of the pad
Aspect == Abs(GetY2 - GetY1) \div Abs(GetX2 - GetX1)

\* R2 = fR1 * |Y2-Y1| / |X2-X1|; the quotient of the ranges is exact, so
\* the product is taken with it
R2of(f) == f.fR1 * Aspect

GetBBox(f, pad) ==
    IF ~pad THEN [fX |-> 0, fY |-> 0, fWidth |-> 0, fHeight |-> 0]
    ELSE [fX      |-> XtoPixel(f.fX1 - f.fR1),
          fY      |-> YtoPixel(f.fY1 + R2of(f)),
          fWidth  |-> XtoPixel(f.fX1 + f.fR1) - XtoPixel(f.fX1 - f.fR1),
          fHeight |-> YtoPixel(f.fY1 - R2of(f)) - YtoPixel(f.fY1 + R2of(f))]

GetBBoxCenter(f, pad) ==
    IF ~pad THEN [fX |-> 0, fY |-> 0]
    ELSE [fX |-> XtoPixel(f.fX1), fY |-> YtoPixel(f.fY1)]

SetBBoxCenter(f, px, py, pad) ==
    IF ~pad THEN f
    ELSE Build([f EXCEPT !.fX1 = PixeltoX(px),
                         !.fY1 = PixeltoY(py - VtoPixel0)], pad)

\* SetBBoxCenterX without the test for a pad
SetBBoxCenterX_NoGuard(f, x, pad) ==
    Build([f EXCEPT !.fX1 = PixeltoX(x)], pad)

SetBBoxCenterX(f, x, pad) ==
    IF ~pad THEN f ELSE Build([f EXCEPT !.fX1 = PixeltoX(x)], pad)

SetBBoxCenterY(f, y, pad) ==
    IF ~pad THEN f ELSE Build([f EXCEPT !.fY1 = PixeltoY(y - VtoPixel0)], pad)

SetBBoxX1(f, x, pad) ==
    LET x1 == PixeltoX(x)
        r  == (f.fX1 + f.fR1 - x1) \div 2
    IN  IF ~pad THEN f
        ELSE IF x1 > f.fX1 + f.fR1 THEN f
        ELSE [f EXCEPT !.fR1 = r, !.fX1 = x1 + r]

\* SetBBoxX2 with the centre placed by the radius from before the update
SetBBoxX2_OldRadius(f, x, pad) ==
    LET x2 == PixeltoX(x)
        r  == (x2 - f.fX1 + f.fR1) \div 2
    IN  IF ~pad THEN f
        ELSE IF x2 < f.fX1 - f.fR1 THEN f
        ELSE [f EXCEPT !.fR1 = r, !.fX1 = x2 - f.fR1]

SetBBoxX2(f, x, pad) ==
    LET x2 == PixeltoX(x)
        r  == (x2 - f.fX1 + f.fR1) \div 2
    IN  IF ~pad THEN f
        ELSE IF x2 < f.fX1 - f.fR1 THEN f
        ELSE [f EXCEPT !.fR1 = r, !.fX1 = x2 - r]

SetBBoxY1(f, y, pad) ==
    LET R2 == R2of(f)
        y1 == PixeltoY(y - VtoPixel0)
    IN  IF ~pad THEN f
        ELSE IF y1 < f.fY1 - R2 THEN f
        ELSE [f EXCEPT !.fR1 = ((y1 - f.fY1 + R2) \div 2) \div Aspect,
                       !.fY1 = y1 - R2]

\* SetBBoxY2 with the comparison taken in pixel rather than logical order
SetBBoxY2_Flipped(f, y, pad) ==
    LET R2 == R2of(f)
        y2 == PixeltoY(y - VtoPixel0)
    IN  IF ~pad THEN f
        ELSE IF y2 < f.fY1 + R2 THEN f
        ELSE [f EXCEPT !.fR1 = ((f.fY1 + R2 - y2) \div 2) \div Aspect,
                       !.fY1 = y2 + R2]

SetBBoxY2(f, y, pad) ==
    LET R2 == R2of(f)
        y2 == PixeltoY(y - VtoPixel0)
    IN  IF ~pad THEN f
        ELSE IF y2 > f.fY1 + R2 THEN f
        ELSE [f EXCEPT !.fR1 = ((f.fY1 + R2 - y2) \div 2) \div Aspect,
                       !.fY1 = y2 + R2]

\* ------------------------------------------------- inputs of the setters
\* logical coordinates and radii handed to the setters (ticks)
Centers   == {<<20 * Unit, 60 * Unit>>, <<30 * Unit, 68 * Unit>>}
Radii     == {-5 * Unit, 0, 15 * Unit}
Phimins   == {-90, 0, 270}
Phimaxs   == {90, 270, 360}
\* pixel columns and rows handed to the bounding-box setters
EdgePx    == {10, 21, 50}
CenterPx  == {<<21, 50>>, <<30, 30>>}

Op(name, a, x, y) == [op |-> name, a |-> a, x |-> x, y |-> y]

\* everything but the arcs and the record of the last call
idle == <<st, gPad, opaque, fgDefault, phase, saved, ret, out, cursor,
          gVirtualX, shadow, anchor>>

DoSetCenter ==
    \E a \in DOMAIN arc, c \in Centers :
        /\ steps < MaxSteps
        /\ steps' = steps + 1
        /\ arc' = [arc EXCEPT ![a] = SetCenter(arc[a], c[1], c[2], gPad)]
        /\ ev' = Op("SetCenter", a, c[1], c[2])
        /\ UNCHANGED <<idle, edits>>

DoSetRadius ==
    \E a \in DOMAIN arc, x \in Radii :
        /\ steps < MaxSteps
        /\ steps' = steps + 1
        /\ arc' = [arc EXCEPT ![a] = SetRadius(arc[a], x, gPad)]
        /\ ev' = Op("SetRadius", a, x, 0)
        /\ UNCHANGED <<idle, edits>>

DoSetPhimin ==
    \E a \in DOMAIN arc, x \in Phimins :
        /\ steps < MaxSteps
        /\ steps' = steps + 1
        /\ arc' = [arc EXCEPT ![a] = SetPhimin(arc[a], x, gPad)]
        /\ ev' = Op("SetPhimin", a, x, 0)
        /\ UNCHANGED <<idle, edits>>

DoSetPhimax ==
    \E a \in DOMAIN arc, x \in Phimaxs :
        /\ steps < MaxSteps
        /\ steps' = steps + 1
        /\ arc' = [arc EXCEPT ![a] = SetPhimax(arc[a], x, gPad)]
        /\ ev' = Op("SetPhimax", a, x, 0)
        /\ UNCHANGED <<idle, edits>>

DoSetBBoxCenter ==
    \E a \in DOMAIN arc, c \in CenterPx :
        /\ steps < MaxSteps
        /\ steps' = steps + 1
        /\ arc' = [arc EXCEPT ![a] = SetBBoxCenter(arc[a], c[1], c[2], gPad)]
        /\ ev' = Op("SetBBoxCenter", a, c[1], c[2])
        /\ UNCHANGED <<idle, edits>>

DoSetBBoxCenterX ==
    \E a \in DOMAIN arc, x \in EdgePx :
        /\ steps < MaxSteps
        /\ steps' = steps + 1
        /\ arc' = [arc EXCEPT ![a] = SetBBoxCenterX(arc[a], x, gPad)]
        /\ ev' = Op("SetBBoxCenterX", a, x, 0)
        /\ UNCHANGED <<idle, edits>>

DoSetBBoxCenterY ==
    \E a \in DOMAIN arc, y \in EdgePx :
        /\ steps < MaxSteps
        /\ steps' = steps + 1
        /\ arc' = [arc EXCEPT ![a] = SetBBoxCenterY(arc[a], y, gPad)]
        /\ ev' = Op("SetBBoxCenterY", a, 0, y)
        /\ UNCHANGED <<idle, edits>>

\* The edge setters are called by the host's box editing, between
\* interaction sequences of the arc.
DoSetBBoxX1 ==
    \E a \in DOMAIN arc, x \in EdgePx :
        /\ steps < MaxSteps
        /\ steps' = steps + 1
        /\ phase[a] = "idle"
        /\ arc' = [arc EXCEPT ![a] = SetBBoxX1(arc[a], x, gPad)]
        /\ ev' = Op("SetBBoxX1", a, x, 0)
        /\ edits' = edits + 1
        /\ UNCHANGED idle

DoSetBBoxX2 ==
    \E a \in DOMAIN arc, x \in EdgePx :
        /\ steps < MaxSteps
        /\ steps' = steps + 1
        /\ phase[a] = "idle"
        /\ arc' = [arc EXCEPT ![a] = SetBBoxX2(arc[a], x, gPad)]
        /\ ev' = Op("SetBBoxX2", a, x, 0)
        /\ edits' = edits + 1
        /\ UNCHANGED idle

DoSetBBoxY1 ==
    \E a \in DOMAIN arc, y \in EdgePx :
        /\ steps < MaxSteps
        /\ steps' = steps + 1
        /\ phase[a] = "idle"
        /\ arc' = [arc EXCEPT ![a] = SetBBoxY1(arc[a], y, gPad)]
        /\ ev' = Op("SetBBoxY1", a, 0, y)
        /\ edits' = edits + 1
        /\ UNCHANGED idle

DoSetBBoxY2 ==
    \E a \in DOMAIN arc, y \in EdgePx :
        /\ steps < MaxSteps
        /\ steps' = steps + 1
        /\ phase[a] = "idle"
        /\ arc' = [arc EXCEPT ![a] = SetBBoxY2(arc[a], y, gPad)]
        /\ ev' = Op("SetBBoxY2", a, 0, y)
        /\ edits' = edits + 1
        /\ UNCHANGED idle

\* --------------------------------------------------------- initial states
\* static storage is zero-initialised
NoStatics ==
    [px1 |-> 0, py1 |-> 0, r1 |-> 0, pxold |-> 0, pyold |-> 0,
     pTop |-> FALSE, pL |-> FALSE, pR |-> FALSE, pBot |-> FALSE,
     pINSIDE |-> FALSE,
     pTx |-> 0, pTy |-> 0, pLx |-> 0, pLy |-> 0,
     pRx |-> 0, pRy |-> 0, pBx |-> 0, pBy |-> 0,
     xy |-> [by |-> "zero", cx |-> 0, cy |-> 0, r |-> 0,
             phimin |-> 0, phimax |-> 0],
     npe |-> 0]

\* nothing drawn in XOR mode yet: the lines the last event drew again to
\* erase them, the lines it drew anew, and the lines that show
NoDrawing == [erased |-> << >>, drawn |-> << >>, shown |-> {}]

\* statics holding values that no arc of the model gives them
Leftover ==
    [px1 |-> 77, py1 |-> 77, r1 |-> 77, pxold |-> 77, pyold |-> 77,
     pTop |-> TRUE, pL |-> TRUE, pR |-> TRUE, pBot |-> TRUE,
     pINSIDE |-> TRUE,
     pTx |-> 77, pTy |-> 77, pLx |-> 77, pLy |-> 77,
     pRx |-> 77, pRy |-> 77, pBx |-> 77, pBy |-> 77,
     xy |-> [by |-> "pixels", cx |-> 77, cy |-> 77, r |-> 77,
             phimin |-> 0, phimax |-> 77],
     npe |-> 12]

Defaults == [fgDefaultWaveLength |-> 2, fgDefaultAmplitude |-> 1,
             fgDefaultIsCurly |-> TRUE]

\* what every specification starts from, the arcs aside
InitRest ==
    /\ st = NoStatics
    /\ fgDefault = Defaults
    /\ ev = Op("new", 0, 0, 0)
    /\ ret = 0
    /\ out = << >>
    /\ edits = 0
    /\ steps = 0
    /\ cursor = "kPointer"
    /\ gVirtualX = NoDrawing
    /\ shadow = NoStatics
    /\ anchor = [x |-> 0, y |-> 0, s |-> NoStatics]

\* one arc built by the seven-argument constructor
InitSet ==
    /\ gPad \in BOOLEAN
    /\ opaque = FALSE
    /\ \E r \in Radii :
          arc = (1 :> Ctor(30 * Unit, 68 * Unit, r, 0, 90, 2, 1,
                           Defaults.fgDefaultIsCurly, gPad))
    /\ phase = (1 :> "idle")
    /\ saved = (1 :> NoStatics)
    /\ InitRest

NextSet ==
    \/ DoSetCenter \/ DoSetRadius \/ DoSetPhimin \/ DoSetPhimax
    \/ DoSetBBoxCenter \/ DoSetBBoxCenterX \/ DoSetBBoxCenterY
    \/ DoSetBBoxX1 \/ DoSetBBoxX2 \/ DoSetBBoxY1 \/ DoSetBBoxY2

SpecSet == InitSet /\ [][NextSet]_vars

\* the fields stay on the grid the edits so far leave exact
OnGrid ==
    \A a \in DOMAIN arc :
        LET g == Pow4(MaxSteps - edits)
        IN  arc[a].fX1 % g = 0 /\ arc[a].fY1 % g = 0 /\ arc[a].fR1 % g = 0

\* ----------------------------------------------------------- ExecuteEvent
kMaxDiff == 10
np == 10

\* The outline points x[0..np+2], y[0..np+2] are kept as what they were
\* computed from: the pixel centre, the radius (the logical radius when the
\* down event computes them, the working pixel radius when a motion does)
\* and the angles.  npe is the number of outline segments.
Npe(f) == IF f.fPhimax - f.fPhimin >= 360 THEN np ELSE np + 2

OutlineOf(f, how, r) ==
    [by |-> how, cx |-> XtoAbsPixel(f.fX1), cy |-> YtoAbsPixel(f.fY1),
     r |-> r, phimin |-> f.fPhimin, phimax |-> f.fPhimax]

DownKinds   == {"kArrowKeyPress", "kButton1Down"}
MotionKinds == {"kArrowKeyRelease", "kButton1Motion"}

\* EvDown with the working pixel radius left as it was
EvDown_KeepR1(f, s, opq) ==
    LET px1 == XtoAbsPixel(f.fX1)
        py1 == YtoAbsPixel(f.fY1)
        pLx == XtoAbsPixel(-f.fR1 + f.fX1)
        pRx == XtoAbsPixel(f.fR1 + f.fX1)
        r1  == s.r1
    IN  [s EXCEPT !.px1 = px1, !.py1 = py1,
                  !.pTx = px1, !.pBx = px1, !.pLy = py1, !.pRy = py1,
                  !.pLx = pLx, !.pRx = pRx, !.r1 = r1,
                  !.pTy = YtoAbsPixel(f.fY1) + r1,
                  !.pBy = YtoAbsPixel(f.fY1) - r1,
                  !.xy  = IF opq THEN s.xy ELSE OutlineOf(f, "fields", f.fR1),
                  !.npe = IF opq THEN s.npe ELSE Npe(f)]

\* case kArrowKeyPress / kButton1Down, up to the fall-through
EvDown(f, s, opq) ==
    LET px1 == XtoAbsPixel(f.fX1)
        py1 == YtoAbsPixel(f.fY1)
        pLx == XtoAbsPixel(-f.fR1 + f.fX1)
        pRx == XtoAbsPixel(f.fR1 + f.fX1)
        r1  == Abs(pLx - pRx) \div 2
    IN  [s EXCEPT !.px1 = px1, !.py1 = py1,
                  !.pTx = px1, !.pBx = px1, !.pLy = py1, !.pRy = py1,
                  !.pLx = pLx, !.pRx = pRx, !.r1 = r1,
                  !.pTy = YtoAbsPixel(f.fY1) + r1,
                  !.pBy = YtoAbsPixel(f.fY1) - r1,
                  !.xy  = IF opq THEN s.xy ELSE OutlineOf(f, "fields", f.fR1),
                  !.npe = IF opq THEN s.npe ELSE Npe(f)]

\* EvHover with the working pixel radius assigned as the down case does
EvHover_SetsR1(f, s, px, py) ==
    LET px1 == XtoAbsPixel(f.fX1)
        py1 == YtoAbsPixel(f.fY1)
        pLx == XtoAbsPixel(-f.fR1 + f.fX1)
        pRx == XtoAbsPixel(f.fR1 + f.fX1)
        pTy == YtoAbsPixel(f.fY1) + Abs(pLx - pRx) \div 2
        pBy == YtoAbsPixel(f.fY1) - Abs(pLx - pRx) \div 2
        top == Abs(px - px1) < kMaxDiff /\ Abs(py - pTy) < kMaxDiff
        bot == ~top /\ Abs(px - px1) < kMaxDiff /\ Abs(py - pBy) < kMaxDiff
        lft == ~top /\ ~bot
               /\ Abs(py - py1) < kMaxDiff /\ Abs(px - pLx) < kMaxDiff
        rgt == ~top /\ ~bot /\ ~lft
               /\ Abs(py - py1) < kMaxDiff /\ Abs(px - pRx) < kMaxDiff
    IN  [s EXCEPT !.px1 = px1, !.py1 = py1,
                  !.pTx = px1, !.pBx = px1, !.pLy = py1, !.pRy = py1,
                  !.pLx = pLx, !.pRx = pRx, !.pTy = pTy, !.pBy = pBy,
                  !.r1 = Abs(pLx - pRx) \div 2,
                  !.pTop = top, !.pBot = bot, !.pL = lft, !.pR = rgt,
                  !.pINSIDE = ~top /\ ~bot /\ ~lft /\ ~rgt,
                  !.pxold = px, !.pyold = py]

\* EvHover with the bottom handle tested whether or not the top one is hit
EvHover_NoElse(f, s, px, py) ==
    LET px1 == XtoAbsPixel(f.fX1)
        py1 == YtoAbsPixel(f.fY1)
        pLx == XtoAbsPixel(-f.fR1 + f.fX1)
        pRx == XtoAbsPixel(f.fR1 + f.fX1)
        pTy == YtoAbsPixel(f.fY1) + Abs(pLx - pRx) \div 2
        pBy == YtoAbsPixel(f.fY1) - Abs(pLx - pRx) \div 2
        top == Abs(px - px1) < kMaxDiff /\ Abs(py - pTy) < kMaxDiff
        bot == Abs(px - px1) < kMaxDiff /\ Abs(py - pBy) < kMaxDiff
        lft == ~top /\ ~bot
               /\ Abs(py - py1) < kMaxDiff /\ Abs(px - pLx) < kMaxDiff
        rgt == ~top /\ ~bot /\ ~lft
               /\ Abs(py - py1) < kMaxDiff /\ Abs(px - pRx) < kMaxDiff
    IN  [s EXCEPT !.px1 = px1, !.py1 = py1,
                  !.pTx = px1, !.pBx = px1, !.pLy = py1, !.pRy = py1,
                  !.pLx = pLx, !.pRx = pRx, !.pTy = pTy, !.pBy = pBy,
                  !.pTop = top, !.pBot = bot, !.pL = lft, !.pR = rgt,
                  !.pINSIDE = ~top /\ ~bot /\ ~lft /\ ~rgt,
                  !.pxold = px, !.pyold = py]

\* case kMouseMotion: handle positions, handle flags, cursor position
EvHover(f, s, px, py) ==
    LET px1 == XtoAbsPixel(f.fX1)
        py1 == YtoAbsPixel(f.fY1)
        pLx == XtoAbsPixel(-f.fR1 + f.fX1)
        pRx == XtoAbsPixel(f.fR1 + f.fX1)
        pTy == YtoAbsPixel(f.fY1) + Abs(pLx - pRx) \div 2
        pBy == YtoAbsPixel(f.fY1) - Abs(pLx - pRx) \div 2
        top == Abs(px - px1) < kMaxDiff /\ Abs(py - pTy) < kMaxDiff
        bot == ~top /\ Abs(px - px1) < kMaxDiff /\ Abs(py - pBy) < kMaxDiff
        lft == ~top /\ ~bot
               /\ Abs(py - py1) < kMaxDiff /\ Abs(px - pLx) < kMaxDiff
        rgt == ~top /\ ~bot /\ ~lft
               /\ Abs(py - py1) < kMaxDiff /\ Abs(px - pRx) < kMaxDiff
    IN  [s EXCEPT !.px1 = px1, !.py1 = py1,
                  !.pTx = px1, !.pBx = px1, !.pLy = py1, !.pRy = py1,
                  !.pLx = pLx, !.pRx = pRx, !.pTy = pTy, !.pBy = pBy,
                  !.pTop = top, !.pBot = bot, !.pL = lft, !.pR = rgt,
                  !.pINSIDE = ~top /\ ~bot /\ ~lft /\ ~rgt,
                  !.pxold = px, !.pyold = py]

\* the cursor icon the hover code sets
CursorOf(s) ==
    IF s.pTop THEN "kTopSide" ELSE IF s.pBot THEN "kBottomSide"
    ELSE IF s.pL THEN "kLeftSide" ELSE IF s.pR THEN "kRightSide"
    ELSE "kMove"

\* case kArrowKeyRelease / kButton1Motion: the working radius
MotionR1(s, px, py) ==
    LET a == IF s.pTop THEN s.r1 + (py - s.pyold) ELSE s.r1
        b == IF s.pBot THEN a - (py - s.pyold) ELSE a
        c == IF s.pL THEN b - (px - s.pxold) ELSE b
    IN  IF s.pR THEN c + (px - s.pxold) ELSE c

\* MotionStatics with the last cursor position left as it was
MotionStatics_StaleOld(s, r1, px1, py1, px, py) ==
    [s EXCEPT !.r1 = r1, !.px1 = px1, !.py1 = py1,
              !.pTx = px1, !.pBx = px1,
              !.pRx = px1 + r1, !.pLx = px1 - r1,
              !.pRy = py1, !.pLy = py1,
              !.pTy = py1 - r1, !.pBy = py1 + r1]

\* case kArrowKeyRelease / kButton1Motion: the handle positions and the
\* cursor position once the working centre and radius are updated
MotionStatics(s, r1, px1, py1, px, py) ==
    [s EXCEPT !.r1 = r1, !.px1 = px1, !.py1 = py1,
              !.pTx = px1, !.pBx = px1,
              !.pRx = px1 + r1, !.pLx = px1 - r1,
              !.pRy = py1, !.pLy = py1,
              !.pTy = py1 - r1, !.pBy = py1 + r1,
              !.pxold = px, !.pyold = py]

\* case kArrowKeyRelease / kButton1Motion, non-opaque: the outline points
\* are computed anew on a resize handle and shifted on the move handle
MotionOutline(f, s, r1, px, py, opq) ==
    LET resize == s.pTop \/ s.pBot \/ s.pL \/ s.pR
        s1 == IF resize /\ ~opq
              THEN [s EXCEPT !.xy = OutlineOf(f, "pixels", r1), !.npe = Npe(f)]
              ELSE s
    IN  IF s.pINSIDE /\ ~opq
        THEN [s1 EXCEPT !.xy.cx = @ + (px - s.pxold),
                        !.xy.cy = @ + (py - s.pyold)]
        ELSE s1

\* EvMotion with the drag mode ignored: every motion is committed
EvMotion_AlwaysLive(f, s, px, py, opq, pad) ==
    LET r1     == MotionR1(s, px, py)
        resize == s.pTop \/ s.pBot \/ s.pL \/ s.pR
        f1 == IF resize
              THEN SetRadius(
                     SetStartPoint(f, AbsPixeltoX(s.px1), AbsPixeltoY(s.py1), pad),
                     Abs(AbsPixeltoX(s.px1 - r1) - AbsPixeltoX(s.px1 + r1)) \div 2,
                     pad)
              ELSE f
        px1 == IF s.pINSIDE THEN s.px1 + (px - s.pxold) ELSE s.px1
        py1 == IF s.pINSIDE THEN s.py1 + (py - s.pyold) ELSE s.py1
        f2 == IF s.pINSIDE
              THEN SetStartPoint(f1, AbsPixeltoX(px1), AbsPixeltoY(py1), pad)
              ELSE f1
    IN  [f |-> f2,
         s |-> MotionStatics(MotionOutline(f, s, r1, px, py, opq),
                             r1, px1, py1, px, py)]

\* EvMotion with the live radius taken as the full pixel width
EvMotion_Diameter(f, s, px, py, opq, pad) ==
    LET r1     == MotionR1(s, px, py)
        resize == s.pTop \/ s.pBot \/ s.pL \/ s.pR
        f1 == IF resize /\ opq
              THEN SetRadius(
                     SetStartPoint(f, AbsPixeltoX(s.px1), AbsPixeltoY(s.py1), pad),
                     Abs(AbsPixeltoX(s.px1 - r1) - AbsPixeltoX(s.px1 + r1)),
                     pad)
              ELSE f
        px1 == IF s.pINSIDE THEN s.px1 + (px - s.pxold) ELSE s.px1
        py1 == IF s.pINSIDE THEN s.py1 + (py - s.pyold) ELSE s.py1
        f2 == IF s.pINSIDE /\ opq
              THEN SetStartPoint(f1, AbsPixeltoX(px1), AbsPixeltoY(py1), pad)
              ELSE f1
    IN  [f |-> f2,
         s |-> MotionStatics(MotionOutline(f, s, r1, px, py, opq),
                             r1, px1, py1, px, py)]

\* case kArrowKeyRelease / kButton1Motion: fields and statics afterwards
EvMotion(f, s, px, py, opq, pad) ==
    LET r1     == MotionR1(s, px, py)
        resize == s.pTop \/ s.pBot \/ s.pL \/ s.pR
        f1 == IF resize /\ opq
              THEN SetRadius(
                     SetStartPoint(f, AbsPixeltoX(s.px1), AbsPixeltoY(s.py1), pad),
                     Abs(AbsPixeltoX(s.px1 - r1) - AbsPixeltoX(s.px1 + r1)) \div 2,
                     pad)
              ELSE f
        px1 == IF s.pINSIDE THEN s.px1 + (px - s.pxold) ELSE s.px1
        py1 == IF s.pINSIDE THEN s.py1 + (py - s.pyold) ELSE s.py1
        f2 == IF s.pINSIDE /\ opq
              THEN SetStartPoint(f1, AbsPixeltoX(px1), AbsPixeltoY(py1), pad)
              ELSE f1
    IN  [f |-> f2,
         s |-> MotionStatics(MotionOutline(f, s, r1, px, py, opq),
                             r1, px1, py1, px, py)]

\* EvUp with the sign of the pixel radius kept
EvUp_Signed(f, s, opq, pad) ==
    LET rLx == AbsPixeltoX(s.px1 + s.r1)
        rRx == AbsPixeltoX(s.px1 - s.r1)
    IN  IF opq THEN Build(f, pad)
        ELSE Build([f EXCEPT !.fX1 = AbsPixeltoX(s.px1),
                             !.fY1 = AbsPixeltoY(s.py1),
                             !.fR1 = (rLx - rRx) \div 2], pad)

\* EvUp with the working centre left uncommitted
EvUp_RadiusOnly(f, s, opq, pad) ==
    LET rLx == AbsPixeltoX(s.px1 + s.r1)
        rRx == AbsPixeltoX(s.px1 - s.r1)
    IN  IF opq THEN Build(f, pad)
        ELSE Build([f EXCEPT !.fR1 = Abs(rRx - rLx) \div 2], pad)

\* case kButton1Up
EvUp(f, s, opq, pad) ==
    LET rLx == AbsPixeltoX(s.px1 + s.r1)
        rRx == AbsPixeltoX(s.px1 - s.r1)
    IN  IF opq THEN Build(f, pad)
        ELSE Build([f EXCEPT !.fX1 = AbsPixeltoX(s.px1),
                             !.fY1 = AbsPixeltoY(s.py1),
                             !.fR1 = Abs(rRx - rLx) \div 2], pad)

ExecuteEvent(f, s, event, px, py, opq, pad) ==
    IF ~pad THEN [f |-> f, s |-> s]
    ELSE IF event \in DownKinds
         THEN [f |-> f, s |-> EvHover(f, EvDown(f, s, opq), px, py)]
    ELSE IF event = "kMouseMotion"
         THEN [f |-> f, s |-> EvHover(f, s, px, py)]
    ELSE IF event \in MotionKinds
         THEN EvMotion(f, s, px, py, opq, pad)
    ELSE IF event = "kButton1Up"
         THEN [f |-> EvUp(f, s, opq, pad), s |-> s]
    ELSE [f |-> f, s |-> s]

\* ------------------------------------------------------- XOR mode drawing
\* gVirtualX->DrawLine(x1, y1, x2, y2)
Line(x1, y1, x2, y2) == [k |-> "line", p |-> <<x1, y1, x2, y2, 0>>, n |-> 1]

\* the four sides of the marker box around a handle
Box(cx, cy) ==
    << Line(cx + 4, cy + 4, cx - 4, cy + 4), Line(cx - 4, cy + 4, cx - 4, cy - 4),
       Line(cx - 4, cy - 4, cx + 4, cy - 4), Line(cx + 4, cy - 4, cx + 4, cy + 4) >>

\* the marker boxes of the right, left, bottom and top handle
Markers(s) ==
    Box(s.pRx, s.py1) \o Box(s.pLx, s.py1)
    \o Box(s.px1, s.pBy) \o Box(s.px1, s.pTy)

\* for (i=0;i<npe;i++) DrawLine(x[i], y[i], x[i+1], y[i+1])
Outline(s) ==
    IF s.npe = 0 THEN << >>
    ELSE << [k |-> s.xy.by,
             p |-> <<s.xy.cx, s.xy.cy, s.xy.r, s.xy.phimin, s.xy.phimax>>,
             n |-> s.npe] >>

\* a line drawn in XOR mode shows if it did not show, and the reverse
RECURSIVE Toggle(_, _)
Toggle(shown, lines) ==
    IF lines = << >> THEN shown
    ELSE LET h == Head(lines)
         IN  Toggle(IF h \in shown THEN shown \ {h} ELSE shown \cup {h},
                    Tail(lines))

\* the lines one event draws: those it draws before it updates the working
\* geometry, and those it draws after
ExecuteEventDraws(f, s, event, px, py, opq, pad) ==
    LET s2 == ExecuteEvent(f, s, event, px, py, opq, pad).s
    IN  IF ~pad \/ opq THEN [erased |-> << >>, drawn |-> << >>]
        ELSE IF event \in DownKinds
             THEN [erased |-> << >>, drawn |-> Markers(EvDown(f, s, opq))]
        ELSE IF event \in MotionKinds
             THEN [erased |-> Markers(s) \o Outline(s),
                   drawn  |-> (IF s.pTop \/ s.pBot \/ s.pL \/ s.pR
                               THEN Outline(s2) ELSE << >>)
                              \o (IF s.pINSIDE THEN Outline(s2) ELSE << >>)
                              \o Markers(s2)]
        ELSE [erased |-> << >>, drawn |-> << >>]

\* the cursor icon after the event
ExecuteEventCursor(f, s, event, px, py, opq, pad, old) ==
    IF pad /\ event \in DownKinds \cup {"kMouseMotion"}
    THEN CursorOf(ExecuteEvent(f, s, event, px, py, opq, pad).s)
    ELSE old

\* cursor positions the host delivers: on each handle of the initial arc,
\* inside it, and off it
EventPts == {<<30, 45>>, <<30, 15>>, <<15, 30>>, <<45, 30>>, <<30, 30>>,
             <<22, 37>>}

Deliver(a, event, pt) ==
    LET res == ExecuteEvent(arc[a], st, event, pt[1], pt[2], opaque, gPad)
    IN  /\ steps < MaxSteps
        /\ steps' = steps + 1
        /\ arc' = [arc EXCEPT ![a] = res.f]
        /\ st' = res.s
        /\ saved' = [saved EXCEPT ![a] = res.s]
        /\ ev' = Op(event, a, pt[1], pt[2])
        /\ cursor' = ExecuteEventCursor(arc[a], st, event, pt[1], pt[2],
                                        opaque, gPad, cursor)
        /\ LET d == ExecuteEventDraws(arc[a], st, event, pt[1], pt[2],
                                      opaque, gPad)
           IN  gVirtualX' = [erased |-> d.erased, drawn |-> d.drawn,
                             shown |-> Toggle(gVirtualX.shown,
                                              d.erased \o d.drawn)]
        /\ shadow' = ExecuteEvent(arc[a],
                                  IF event \in DownKinds THEN Leftover
                                  ELSE shadow,
                                  event, pt[1], pt[2], opaque, gPad).s
        /\ anchor' = IF event \in DownKinds
                     THEN [x |-> pt[1], y |-> pt[2], s |-> res.s]
                     ELSE anchor
        /\ UNCHANGED <<gPad, opaque, fgDefault, ret, out, edits>>

\* the host delivers down, then motions, then up; hover while no button is held
ButtonDown ==
    \E a \in DOMAIN arc, event \in DownKinds, pt \in EventPts :
        /\ phase[a] = "idle"
        /\ phase' = [phase EXCEPT ![a] = "drag"]
        /\ Deliver(a, event, pt)

MouseMotion ==
    \E a \in DOMAIN arc, pt \in EventPts :
        /\ phase[a] = "idle"
        /\ UNCHANGED phase
        /\ Deliver(a, "kMouseMotion", pt)

ButtonMotion ==
    \E a \in DOMAIN arc, event \in MotionKinds, pt \in EventPts :
        /\ phase[a] = "drag"
        /\ UNCHANGED phase
        /\ Deliver(a, event, pt)

\* the button is released where the cursor was last seen
ButtonUp ==
    \E a \in DOMAIN arc :
        /\ phase[a] = "drag"
        /\ phase' = [phase EXCEPT ![a] = "idle"]
        /\ Deliver(a, "kButton1Up", <<st.pxold, st.pyold>>)

\* one arc of radius >= 0, edited by events and bounding-box edges
Init ==
    /\ gPad \in BOOLEAN
    /\ opaque \in BOOLEAN
    /\ \E r \in {0, 15 * Unit} :
          arc = (1 :> Ctor(30 * Unit, 68 * Unit, r, 0, 90, 2, 1,
                           Defaults.fgDefaultIsCurly, gPad))
    /\ phase = (1 :> "idle")
    /\ saved = (1 :> NoStatics)
    /\ InitRest

Next ==
    \/ ButtonDown \/ MouseMotion \/ ButtonMotion \/ ButtonUp
    \/ DoSetBBoxX1 \/ DoSetBBoxX2 \/ DoSetBBoxY1 \/ DoSetBBoxY2

Spec == Init /\ [][Next]_vars

\* ---------------------------------------------------- DistancetoPrimitive
\* floor of the square root
ISqrt(n) == CHOOSE r \in 0..(PadW + PadH) : r * r <= n /\ (r + 1) * (r + 1) > n

\* TMath::ATan2(dy, dx) in degrees, in (-180, 180], for the directions whose
\* angle is a whole number of degrees
ATan2Deg(dy, dx) ==
    IF dy = 0 /\ dx > 0 THEN 0
    ELSE IF dy > 0 /\ dx = dy THEN 45
    ELSE IF dy > 0 /\ dx = 0 THEN 90
    ELSE IF dy > 0 /\ dx = -dy THEN 135
    ELSE IF dy = 0 /\ dx < 0 THEN 180
    ELSE IF dy < 0 /\ dx = dy THEN -135
    ELSE IF dy < 0 /\ dx = 0 THEN -90
    ELSE -45

\* the angle of pixel (px, py) around the centre, degrees in [0, 360)
PhiOf(f, px, py) ==
    LET phi == ATan2Deg(YtoAbsPixel(f.fY1) - py, px - XtoAbsPixel(f.fX1))
    IN  IF phi < 0 THEN phi + 360 ELSE phi

\* The centre itself gives 0/0: phi is not a number and every comparison
\* with it is false.  Int_t(|dist - pxr|) is taken on the exact root.
DistancetoPrimitive(f, px, py, pad) ==
    LET pxc  == XtoAbsPixel(f.fX1)
        pyc  == YtoAbsPixel(f.fY1)
        d2   == (pxc - px) * (pxc - px) + (pyc - py) * (pyc - py)
        nan  == d2 = 0
        phi  == PhiOf(f, px, py)
        away == IF f.fPhimax > f.fPhimin
                THEN ~nan /\ (phi < f.fPhimin \/ phi > f.fPhimax)
                ELSE ~nan /\ (phi > f.fPhimin /\ phi < f.fPhimax)
        pxr  == XtoPixel(f.fR1) - XtoPixel(0)
        lo   == ISqrt(d2)
        hi   == IF lo * lo = d2 THEN lo ELSE lo + 1
    IN  IF ~pad THEN 9999
        ELSE IF away THEN 9999
        ELSE IF pxr <= lo THEN lo - pxr ELSE pxr - hi

\* the eight directions of whole-degree angle, and distances along them
Directions == {<<1, 0>>, <<1, 1>>, <<0, 1>>, <<-1, 1>>,
               <<-1, 0>>, <<-1, -1>>, <<0, -1>>, <<1, -1>>}
Reaches    == {0, 5, 15}

DoDistancetoPrimitive ==
    \E a \in DOMAIN arc, d \in Directions, k \in Reaches :
        LET px == XtoAbsPixel(arc[a].fX1) + k * d[1]
            py == YtoAbsPixel(arc[a].fY1) - k * d[2]
        IN  /\ ret' = DistancetoPrimitive(arc[a], px, py, gPad)
            /\ ev' = Op("DistancetoPrimitive", a, px, py)
            /\ UNCHANGED <<arc, st, gPad, opaque, fgDefault, phase, saved,
                           out, edits, steps, cursor, gVirtualX, shadow,
                           anchor>>

\* one arc of any span, forward or wrapped
InitHit ==
    /\ gPad \in BOOLEAN
    /\ opaque = FALSE
    /\ \E pmin \in {0, 45, 90, 270}, pmax \in {45, 90, 270, 360} :
          arc = (1 :> Ctor(30 * Unit, 68 * Unit, 15 * Unit, pmin, pmax, 2, 1,
                           Defaults.fgDefaultIsCurly, gPad))
    /\ phase = (1 :> "idle")
    /\ saved = (1 :> NoStatics)
    /\ InitRest

NextHit == DoDistancetoPrimitive

SpecHit == InitHit /\ [][NextHit]_vars

\* ---------------------------------------------------------- SavePrimitive
RECURSIVE Pow10(_)
Pow10(n) == IF n = 0 THEN 1 ELSE 10 * Pow10(n - 1)

\* number of decimal digits of n >= 0
RECURSIVE NDigits(_)
NDigits(n) == IF n < 10 THEN 1 ELSE 1 + NDigits(n \div 10)

\* significant digits operator<< writes for a double (the stream default)
Precision == 6

\* out << v: the text of v, kept as its digits m and the power of ten e they
\* are scaled by; at most Precision digits are written, the last rounded
Format(v) ==
    LET n == Abs(v)
        k == NDigits(n) - Precision
        p == Pow10(k)
        q == n \div p
        r == n % p
        m == IF 2 * r > p \/ (2 * r = p /\ q % 2 = 1) THEN q + 1 ELSE q
    IN  IF k <= 0 THEN [m |-> v, e |-> 0]
        ELSE [m |-> IF v < 0 THEN -m ELSE m, e |-> k]

\* the number a written text reads back as
Parse(t) == t.m * Pow10(t.e)

\* SavePrimitive with the SetWavy statement written after the line attributes
SavePrimitive_WavyLast(f, classSaved) ==
    << [stmt |-> "new", decl |-> ~classSaved,
        args |-> <<Format(f.fX1), Format(f.fY1), Format(f.fR1),
                   Format(f.fPhimin), Format(f.fPhimax),
                   Format(f.fWaveLength), Format(f.fAmplitude)>>],
       [stmt |-> "SaveLineAttributes"] >>
    \o (IF ~f.fIsCurly THEN << [stmt |-> "SetWavy"] >> ELSE << >>)
    \o << [stmt |-> "Draw"] >>

\* the statements SavePrimitive writes; saved tells whether the class was
\* saved before (gROOT->ClassSaved)
SavePrimitive(f, classSaved) ==
    << [stmt |-> "new", decl |-> ~classSaved,
        args |-> <<Format(f.fX1), Format(f.fY1), Format(f.fR1),
                   Format(f.fPhimin), Format(f.fPhimax),
                   Format(f.fWaveLength), Format(f.fAmplitude)>>] >>
    \o (IF ~f.fIsCurly THEN << [stmt |-> "SetWavy"] >> ELSE << >>)
    \o << [stmt |-> "SaveLineAttributes"], [stmt |-> "Draw"] >>

\* the arc the host's interpreter holds in curlyarc after it has executed
\* the statements
RECURSIVE Execute(_, _, _, _)
Execute(stmts, cur, defIsCurly, pad) ==
    IF stmts = << >> THEN cur
    ELSE LET h == Head(stmts)
             nxt == IF h.stmt = "new"
                    THEN Ctor(Parse(h.args[1]), Parse(h.args[2]),
                              Parse(h.args[3]), Parse(h.args[4]),
                              Parse(h.args[5]), Parse(h.args[6]),
                              Parse(h.args[7]), defIsCurly, pad)
                    ELSE IF h.stmt = "SetWavy" THEN SetWavy(cur, pad)
                    ELSE cur
         IN  Execute(Tail(stmts), nxt, defIsCurly, pad)

quiet == <<st, gPad, opaque, phase, saved, ret, edits, cursor, gVirtualX,
           shadow, anchor>>

DoSetDefaultWaveLength ==
    \E v \in {2, 5} :
        /\ steps < MaxSteps
        /\ steps' = steps + 1
        /\ fgDefault' = [fgDefault EXCEPT !.fgDefaultWaveLength = v]
        /\ ev' = Op("SetDefaultWaveLength", 0, v, 0)
        /\ UNCHANGED <<arc, out, quiet>>

DoSetDefaultAmplitude ==
    \E v \in {1, 3} :
        /\ steps < MaxSteps
        /\ steps' = steps + 1
        /\ fgDefault' = [fgDefault EXCEPT !.fgDefaultAmplitude = v]
        /\ ev' = Op("SetDefaultAmplitude", 0, v, 0)
        /\ UNCHANGED <<arc, out, quiet>>

DoSetDefaultIsCurly ==
    \E b \in BOOLEAN :
        /\ steps < MaxSteps
        /\ steps' = steps + 1
        /\ fgDefault' = [fgDefault EXCEPT !.fgDefaultIsCurly = b]
        /\ ev' = Op("SetDefaultIsCurly", 0, IF b THEN 1 ELSE 0, 0)
        /\ UNCHANGED <<arc, out, quiet>>

DoSetWavy ==
    /\ steps < MaxSteps
    /\ steps' = steps + 1
    /\ arc' = [arc EXCEPT ![1] = SetWavy(arc[1], gPad)]
    /\ ev' = Op("SetWavy", 1, 0, 0)
    /\ UNCHANGED <<fgDefault, out, quiet>>

DoSetCurly ==
    /\ steps < MaxSteps
    /\ steps' = steps + 1
    /\ arc' = [arc EXCEPT ![1] = SetCurly(arc[1], gPad)]
    /\ ev' = Op("SetCurly", 1, 0, 0)
    /\ UNCHANGED <<fgDefault, out, quiet>>

\* arc 1 is written to the stream
DoSavePrimitive ==
    /\ steps < MaxSteps
    /\ steps' = steps + 1
    /\ out' = SavePrimitive(arc[1], out # << >>)
    /\ ev' = Op("SavePrimitive", 1, 0, 0)
    /\ UNCHANGED <<arc, fgDefault, quiet>>

\* the host executes the statements last written; the result is arc 2
Replay ==
    /\ steps < MaxSteps
    /\ steps' = steps + 1
    /\ out # << >>
    /\ arc' = (1 :> arc[1])
              @@ (2 :> Execute(out, arc[1], fgDefault.fgDefaultIsCurly, gPad))
    /\ ev' = Op("Replay", 2, 0, 0)
    /\ UNCHANGED <<fgDefault, out, quiet>>

\* one arc built by the seven-argument constructor from any values
InitSave ==
    /\ gPad \in BOOLEAN
    /\ opaque = FALSE
    /\ fgDefault = Defaults
    /\ \E x \in {30 * Unit, 1234567}, r \in {15 * Unit, -7654321},
          pmax \in {90, 360}, wl \in {2, 5} :
          arc = (1 :> Ctor(x, 68 * Unit, r, 0, pmax, wl, 1,
                           Defaults.fgDefaultIsCurly, gPad))
    /\ phase = (1 :> "idle")
    /\ saved = (1 :> NoStatics)
    /\ st = NoStatics
    /\ ev = Op("new", 0, 0, 0)
    /\ ret = 0
    /\ out = << >>
    /\ edits = 0
    /\ steps = 0
    /\ cursor = "kPointer"
    /\ gVirtualX = NoDrawing
    /\ shadow = NoStatics
    /\ anchor = [x |-> 0, y |-> 0, s |-> NoStatics]

NextSave ==
    \/ DoSetDefaultWaveLength \/ DoSetDefaultAmplitude \/ DoSetDefaultIsCurly
    \/ DoSetWavy \/ DoSetCurly \/ DoSavePrimitive \/ Replay

SpecSave == InitSave /\ [][NextSave]_vars

\* ------------------------------------------------------------ no pad
\* an event kind that none of the cases of ExecuteEvent names
OtherKinds == {"kButton1Double"}

OtherEvent ==
    \E a \in DOMAIN arc, event \in OtherKinds, pt \in EventPts :
        /\ phase[a] = "idle"
        /\ UNCHANGED phase
        /\ Deliver(a, event, pt)

DoGetBBox ==
    \E a \in DOMAIN arc :
        /\ steps < MaxSteps
        /\ steps' = steps + 1
        /\ ret' = GetBBox(arc[a], gPad)
        /\ ev' = Op("GetBBox", a, 0, 0)
        /\ UNCHANGED <<arc, st, gPad, opaque, fgDefault, phase, saved, out,
                       edits, cursor, gVirtualX, shadow, anchor>>

DoGetBBoxCenter ==
    \E a \in DOMAIN arc :
        /\ steps < MaxSteps
        /\ steps' = steps + 1
        /\ ret' = GetBBoxCenter(arc[a], gPad)
        /\ ev' = Op("GetBBoxCenter", a, 0, 0)
        /\ UNCHANGED <<arc, st, gPad, opaque, fgDefault, phase, saved, out,
                       edits, cursor, gVirtualX, shadow, anchor>>

\* one arc and no pad: gPad is null
InitNoPad ==
    /\ gPad = FALSE
    /\ opaque = FALSE
    /\ \E r \in Radii :
          arc = (1 :> Ctor(30 * Unit, 68 * Unit, r, 0, 90, 2, 1,
                           Defaults.fgDefaultIsCurly, gPad))
    /\ phase = (1 :> "idle")
    /\ saved = (1 :> NoStatics)
    /\ InitRest

NextNoPad ==
    \/ DoSetCenter \/ DoSetRadius
    \/ ButtonDown \/ MouseMotion \/ ButtonMotion \/ ButtonUp \/ OtherEvent
    \/ DoSetBBoxCenter \/ DoSetBBoxCenterX \/ DoSetBBoxCenterY
    \/ DoSetBBoxX1 \/ DoSetBBoxX2 \/ DoSetBBoxY1 \/ DoSetBBoxY2
    \/ DoGetBBox \/ DoGetBBoxCenter \/ DoDistancetoPrimitive

SpecNoPad == InitNoPad /\ [][NextNoPad]_vars

\* ------------------------------------------------- bounding-box round trip
\* SetBBoxX1(GetBBox().fX) and then SetBBoxX2(GetBBox().fX + GetBBox().fWidth)
BBoxRoundTrip(f, pad) ==
    LET g == SetBBoxX1(f, GetBBox(f, pad).fX, pad)
        b == GetBBox(g, pad)
    IN  SetBBoxX2(g, b.fX + b.fWidth, pad)

DoBBoxRoundTrip ==
    \E a \in DOMAIN arc :
        LET g == SetBBoxX1(arc[a], GetBBox(arc[a], gPad).fX, gPad)
            b == GetBBox(g, gPad)
        IN  /\ steps < MaxSteps
            /\ steps' = steps + 1
            /\ phase[a] = "idle"
            /\ arc' = [arc EXCEPT ![a] = BBoxRoundTrip(arc[a], gPad)]
            /\ ev' = Op("BBoxRoundTrip", a, GetBBox(arc[a], gPad).fX,
                        b.fX + b.fWidth)
            /\ edits' = edits + 1
            /\ UNCHANGED idle

\* one arc whose edges lie on pixel columns or between them
InitBox ==
    /\ gPad \in BOOLEAN
    /\ opaque = FALSE
    /\ \E x \in {30 * Unit, 30 * Unit + Unit \div 4},
          r \in {0, 15 * Unit, 15 * Unit + Unit \div 2} :
          arc = (1 :> Ctor(x, 68 * Unit, r, 0, 90, 2, 1,
                           Defaults.fgDefaultIsCurly, gPad))
    /\ phase = (1 :> "idle")
    /\ saved = (1 :> NoStatics)
    /\ InitRest

NextBox ==
    \/ DoSetBBoxX1 \/ DoSetBBoxX2 \/ DoSetBBoxCenterX \/ DoBBoxRoundTrip

SpecBox == InitBox /\ [][NextBox]_vars

\* the halvings of the edge setters are exact on every arc reached
BoxExact ==
    \A a \in DOMAIN arc :
        arc[a].fX1 % 2 = 0 /\ arc[a].fR1 % 2 = 0

\* ------------------------------------------------------------ construction
\* arc 2 is the arc constructed last
NewArc(name, f, x, y) ==
    /\ steps < MaxSteps
    /\ steps' = steps + 1
    /\ arc' = (1 :> arc[1]) @@ (2 :> f)
    /\ ev' = Op(name, 2, x, y)
    /\ UNCHANGED <<fgDefault, out, quiet>>

\* new TCurlyArc(x1, y1, rad, phimin, phimax, wl, amp)
DoNew7 ==
    \E c \in Centers, wl \in {4}, amp \in {2, 3} :
        NewArc("TCurlyArc7", Ctor(c[1], c[2], 15 * Unit, 0, 90, wl, amp,
                                  fgDefault.fgDefaultIsCurly, gPad), wl, amp)

\* new TCurlyArc(x1, y1, rad, phimin, phimax)
DoNew5 ==
    \E c \in Centers :
        NewArc("TCurlyArc5", Ctor5(c[1], c[2], 15 * Unit, 0, 90,
                                  fgDefault, gPad), 0, 0)

\* new TCurlyArc()
DoNew0 == NewArc("TCurlyArc0", Ctor0(TCurlyLine0), 0, 0)

InitNew == InitSave

NextNew ==
    \/ DoSetDefaultWaveLength \/ DoSetDefaultAmplitude \/ DoSetDefaultIsCurly
    \/ DoNew7 \/ DoNew5 \/ DoNew0

SpecNew == InitNew /\ [][NextNew]_vars

\* ============================================================== properties
\* edges of the bounding box in logical coordinates: centre +/- radius in X,
\* centre +/- radius * |yrange/xrange| in Y
LeftEdge(f)   == f.fX1 - f.fR1
RightEdge(f)  == f.fX1 + f.fR1
TopEdge(f)    == f.fY1 + f.fR1 * Aspect
BottomEdge(f) == f.fY1 - f.fR1 * Aspect

\* the logical row a bounding-box setter is asked for
RowOf(y) == PixeltoY(y - VtoPixel0)

EventKinds == DownKinds \cup MotionKinds \cup {"kMouseMotion", "kButton1Up"}
SetterOps  == {"SetCenter", "SetRadius", "SetPhimin", "SetPhimax",
               "SetBBoxCenter", "SetBBoxCenterX", "SetBBoxCenterY",
               "SetBBoxX1", "SetBBoxX2", "SetBBoxY1", "SetBBoxY2"}

\* the request of the step crosses the edge opposite to the one it moves
Crossing(e, f) ==
    \/ e.op = "SetBBoxX1" /\ PixeltoX(e.x) > RightEdge(f)
    \/ e.op = "SetBBoxX2" /\ PixeltoX(e.x) < LeftEdge(f)
    \/ e.op = "SetBBoxY1" /\ RowOf(e.y) < BottomEdge(f)
    \/ e.op = "SetBBoxY2" /\ RowOf(e.y) > TopEdge(f)

\* C2: an accepted SetBBoxX1/X2/Y1/Y2 puts the moved edge on the requested
\* logical coordinate and leaves the opposite edge where it was.
C2_AcceptedEdgeMoves ==
    [][(gPad /\ ev'.op \in {"SetBBoxX1", "SetBBoxX2", "SetBBoxY1", "SetBBoxY2"}
        /\ ~Crossing(ev', arc[ev'.a]))
       => LET f == arc[ev'.a]
              g == arc'[ev'.a]
          IN  /\ ev'.op = "SetBBoxX1" =>
                    LeftEdge(g) = PixeltoX(ev'.x) /\ RightEdge(g) = RightEdge(f)
              /\ ev'.op = "SetBBoxX2" =>
                    RightEdge(g) = PixeltoX(ev'.x) /\ LeftEdge(g) = LeftEdge(f)
              /\ ev'.op = "SetBBoxY1" =>
                    TopEdge(g) = RowOf(ev'.y) /\ BottomEdge(g) = BottomEdge(f)
              /\ ev'.op = "SetBBoxY2" =>
                    BottomEdge(g) = RowOf(ev'.y) /\ TopEdge(g) = TopEdge(f)]_vars

\* C3: after any setter that changes a logical field has returned, the
\* polyline is the one built from the centre, radius and phi values the arc
\* holds.
C3_PolylineCurrentAfterSetter ==
    ev.op \in SetterOps => Current(arc[ev.a])

\* C4: a bounding-box edge setter whose request crosses the opposite edge
\* changes no field of the arc and nothing else.
C4_CrossingEdgeIsNoOp ==
    [][(gPad /\ ev'.op \in SetterOps /\ Crossing(ev', arc[ev'.a]))
       => arc' = arc /\ st' = st /\ fgDefault' = fgDefault]_vars

\* a SetBBoxY2 request above the top edge has been made
C4_Witness ==
    /\ gPad
    /\ ev.op = "SetBBoxY2"
    /\ RowOf(ev.y) > TopEdge(arc[ev.a])
    /\ arc[ev.a].fR1 > 0

\* C5: from a radius >= 0, no sequence of bounding-box edge setters and
\* interaction events makes the radius negative.
C5_RadiusNonNegative ==
    \A a \in DOMAIN arc : arc[a].fR1 >= 0

\* a resize handle was pulled past the centre and the button released
C5_Witness ==
    /\ gPad /\ ~opaque
    /\ ev.op = "kButton1Up"
    /\ st.r1 < 0
    /\ arc[ev.a].fR1 = fPixeltoX * (-st.r1)

\* the arc holds the working pixel centre and radius, converted, and its
\* polyline is built from them
Committed(f, s) ==
    /\ f.fX1 = AbsPixeltoX(s.px1)
    /\ f.fY1 = AbsPixeltoY(s.py1)
    /\ f.fR1 = fPixeltoX * Abs(s.r1)
    /\ Current(f)

\* C6 as stated: in non-opaque mode both release events, button up and
\* key up, commit the working centre and radius and rebuild the polyline.
C6_ReleaseCommits ==
    [][(gPad /\ ~opaque /\ ev'.op \in {"kButton1Up", "kArrowKeyRelease"})
       => Committed(arc'[ev'.a], st')]_vars

Geometry(f) == <<f.fX1, f.fY1, f.fR1, f.fPhimin, f.fPhimax>>

\* C6 amended: in non-opaque mode button up commits the working centre and
\* radius and rebuilds the polyline; key up is handled as a drag motion and
\* leaves the committed geometry as it is.
C6_ButtonUpCommits ==
    [][(gPad /\ ~opaque)
       => /\ ev'.op = "kButton1Up" => Committed(arc'[ev'.a], st)
          /\ ev'.op = "kArrowKeyRelease" => arc'[ev'.a] = arc[ev'.a]]_vars

\* button up committed a centre and a radius the drag had changed
C6_Witness ==
    /\ gPad /\ ~opaque
    /\ ev.op = "kButton1Up"
    /\ edits = 0
    /\ Committed(arc[ev.a], st)
    /\ arc[ev.a].poly.x # 30 * Unit
    /\ arc[ev.a].fR1 = 15 * Unit

\* C7: in non-opaque mode no down, hover or drag-motion event changes the
\* committed centre, radius, phiMin or phiMax.
C7_DragLeavesGeometry ==
    [][(gPad /\ ~opaque
        /\ ev'.op \in DownKinds \cup MotionKinds \cup {"kMouseMotion"})
       => Geometry(arc'[ev'.a]) = Geometry(arc[ev'.a])]_vars

\* a handle was dragged past the centre and the button is still held
C7_Witness ==
    /\ gPad /\ ~opaque
    /\ ev.op \in MotionKinds
    /\ phase[ev.a] = "drag"
    /\ st.r1 < 0
    /\ arc[ev.a].fR1 = 15 * Unit

\* C8: in opaque mode every drag motion leaves the logical centre equal to
\* the converted working pixel centre and, on a resize handle, the logical
\* radius equal to the converted working pixel radius; button up changes
\* neither.
C8_OpaqueMotionCommits ==
    [][(gPad /\ opaque)
       => /\ ev'.op \in MotionKinds =>
                LET g == arc'[ev'.a]
                IN  /\ g.fX1 = AbsPixeltoX(st'.px1)
                    /\ g.fY1 = AbsPixeltoY(st'.py1)
                    /\ (st'.pTop \/ st'.pBot \/ st'.pL \/ st'.pR)
                          => g.fR1 = fPixeltoX * Abs(st'.r1)
          /\ ev'.op = "kButton1Up" =>
                LET f == arc[ev'.a]
                    g == arc'[ev'.a]
                IN  g.fX1 = f.fX1 /\ g.fY1 = f.fY1 /\ g.fR1 = f.fR1]_vars

\* a resize handle was dragged in opaque mode and the radius followed
C8_Witness ==
    /\ gPad /\ opaque
    /\ ev.op \in MotionKinds
    /\ st.pR
    /\ st.r1 \notin {0, 15}
    /\ arc[ev.a].fR1 = fPixeltoX * Abs(st.r1)

\* ------------------------------------------------------------- two arcs
\* two arcs on the same pad, their events interleaved
InitTwo ==
    /\ gPad = TRUE
    /\ opaque \in BOOLEAN
    /\ arc = (1 :> Ctor(30 * Unit, 68 * Unit, 15 * Unit, 0, 90, 2, 1,
                        Defaults.fgDefaultIsCurly, gPad))
             @@ (2 :> Ctor(22 * Unit, 54 * Unit, 8 * Unit, 0, 90, 2, 1,
                           Defaults.fgDefaultIsCurly, gPad))
    /\ phase = (1 :> "idle") @@ (2 :> "idle")
    /\ saved = (1 :> NoStatics) @@ (2 :> NoStatics)
    /\ InitRest

NextTwo == ButtonDown \/ MouseMotion \/ ButtonMotion \/ ButtonUp

SpecTwo == InitTwo /\ [][NextTwo]_vars

\* C9: the centre and radius an event gives an arc are those the event
\* gives it when the drag state is as that arc's own last event left it,
\* that is, as if the other arc's events had not been delivered in between.
C9_InstancesIndependent ==
    [][ev'.op \in EventKinds
       => LET f == arc[ev'.a]
              g == arc'[ev'.a]
              h == ExecuteEvent(f, saved[ev'.a], ev'.op, ev'.x, ev'.y,
                                opaque, gPad).f
          IN  g.fX1 = h.fX1 /\ g.fY1 = h.fY1 /\ g.fR1 = h.fR1]_vars

\* the angle phi lies in the span of the arc, forward or wrapped through 360
InSpan(f, phi) ==
    IF f.fPhimax > f.fPhimin
    THEN f.fPhimin <= phi /\ phi <= f.fPhimax
    ELSE phi >= f.fPhimin \/ phi <= f.fPhimax

\* C1: with a pad attached, DistancetoPrimitive returns 9999 for every point
\* whose angle around the centre lies outside the span (forward when
\* phiMax > phiMin, wrapped when phiMax < phiMin), and never for a point
\* whose angle lies inside it.
C1_SentinelIffOutsideSpan ==
    (/\ ev.op = "DistancetoPrimitive"
     /\ gPad
     /\ arc[ev.a].fPhimax # arc[ev.a].fPhimin
     /\ <<ev.x, ev.y>> # <<XtoAbsPixel(arc[ev.a].fX1), YtoAbsPixel(arc[ev.a].fY1)>>)
    => (ret = 9999 <=> ~InSpan(arc[ev.a], PhiOf(arc[ev.a], ev.x, ev.y)))

\* the seven saved values as they read back from the text written for them
ReadBack(f) ==
    <<Parse(Format(f.fX1)), Parse(Format(f.fY1)), Parse(Format(f.fR1)),
      Parse(Format(f.fPhimin)), Parse(Format(f.fPhimax)),
      Parse(Format(f.fWaveLength)), Parse(Format(f.fAmplitude))>>

Values(f) ==
    <<f.fX1, f.fY1, f.fR1, f.fPhimin, f.fPhimax, f.fWaveLength, f.fAmplitude>>

\* C10: executing the statements SavePrimitive wrote for an arc yields an arc
\* with the same centre, radius, phiMin, phiMax, waveLength and amplitude (as
\* they read back from the written text) and the same isCurly, whatever the
\* process-wide defaults are when the statements are executed.
C10_RoundTrip ==
    (ev.op = "Replay" /\ out = SavePrimitive(arc[1], out[1].decl = FALSE))
    => /\ Values(arc[2]) = ReadBack(arc[1])
       /\ arc[2].fIsCurly = arc[1].fIsCurly

\* C11: SavePrimitive writes its statements in a fixed order: first the
\* construction call with centre x, centre y, radius, phiMin, phiMax,
\* waveLength, amplitude in that order; then SetWavy if and only if isCurly
\* is false; then the line attributes; last Draw.
C11_StatementOrder ==
    ev.op = "SavePrimitive"
    => LET f == arc[1]
           n == Len(out)
       IN  /\ n = (IF f.fIsCurly THEN 3 ELSE 4)
           /\ out[1].stmt = "new"
           /\ Len(out[1].args) = 7
           /\ [i \in 1..7 |-> Parse(out[1].args[i])] = ReadBack(f)
           /\ (\E i \in 1..n : out[i].stmt = "SetWavy") <=> ~f.fIsCurly
           /\ ~f.fIsCurly => out[2].stmt = "SetWavy"
           /\ out[n - 1].stmt = "SaveLineAttributes"
           /\ out[n].stmt = "Draw"

\* a wavy arc whose seven values all differ was written
C11_Witness ==
    /\ ev.op = "SavePrimitive"
    /\ ~arc[1].fIsCurly
    /\ Len(out) = 4
    /\ Cardinality({Values(arc[1])[i] : i \in 1..7}) = 7

SetBBoxOps == {"SetBBoxCenter", "SetBBoxCenterX", "SetBBoxCenterY",
               "SetBBoxX1", "SetBBoxX2", "SetBBoxY1", "SetBBoxY2"}

\* C13: with no pad attached, DistancetoPrimitive returns 9999, GetBBox the
\* all-zero box, GetBBoxCenter (0,0), and ExecuteEvent, for every event
\* kind, and every SetBBox* call leave all fields of the arc unchanged.
C13_NoPadNeutral ==
    [][~gPad
       => /\ ev'.op = "DistancetoPrimitive" => ret' = 9999
          /\ ev'.op = "GetBBox"
                => ret' = [fX |-> 0, fY |-> 0, fWidth |-> 0, fHeight |-> 0]
          /\ ev'.op = "GetBBoxCenter" => ret' = [fX |-> 0, fY |-> 0]
          /\ ev'.op \in EventKinds \cup OtherKinds \cup SetBBoxOps
                => arc' = arc]_vars

\* with no pad, the button was released over an arc whose centre and radius
\* had been set
C13_Witness ==
    /\ ~gPad
    /\ ev.op = "kButton1Up"
    /\ arc[ev.a].fX1 = 20 * Unit
    /\ arc[ev.a].fR1 = 15 * Unit

\* the angles the arc holds are degrees in [0, 360]
InRange(f) == f.fPhimin \in 0..360 /\ f.fPhimax \in 0..360

Column(x) == PixeltoX(XtoPixel(x))

\* C15 as stated: with a pad attached and radius >= 0, SetBBoxX1(GetBBox().x)
\* and then SetBBoxX2(GetBBox().x + GetBBox().width) leave the arc with its
\* original radius and centre.
C15_RoundTripExact ==
    [][(gPad /\ ev'.op = "BBoxRoundTrip" /\ arc[ev'.a].fR1 >= 0)
       => LET f == arc[ev'.a]
              g == arc'[ev'.a]
          IN  g.fR1 = f.fR1 /\ g.fX1 = f.fX1 /\ g.fY1 = f.fY1]_vars

\* C15 amended: for an arc that does not reach left of the pad, the round
\* trip puts the left and the right edge on the pixel columns GetBBox
\* reported for them, each less than one pixel to the left of where it was,
\* and leaves the centre row; an arc whose edges both lie on pixel columns
\* keeps its radius and centre.
C15_RoundTripSnaps ==
    [][(gPad /\ ev'.op = "BBoxRoundTrip" /\ arc[ev'.a].fR1 >= 0
        /\ LeftEdge(arc[ev'.a]) >= GetX1)
       => LET f == arc[ev'.a]
              g == arc'[ev'.a]
          IN  /\ LeftEdge(g) = Column(LeftEdge(f))
              /\ RightEdge(g) = Column(RightEdge(f))
              /\ LeftEdge(f) - LeftEdge(g) \in 0..(fPixeltoX - 1)
              /\ RightEdge(f) - RightEdge(g) \in 0..(fPixeltoX - 1)
              /\ g.fY1 = f.fY1
              /\ g.fR1 >= 0
              /\ (LeftEdge(f) = Column(LeftEdge(f))
                  /\ RightEdge(f) = Column(RightEdge(f)))
                    => g.fR1 = f.fR1 /\ g.fX1 = f.fX1]_vars

\* the round trip was made on an arc of positive width
C15_Witness ==
    /\ gPad
    /\ ev.op = "BBoxRoundTrip"
    /\ ev.y > ev.x /\ ev.x >= 0
    /\ LeftEdge(arc[ev.a]) = PixeltoX(ev.x)
    /\ RightEdge(arc[ev.a]) = PixeltoX(ev.y)
    /\ arc[ev.a].fX1 % fPixeltoX # 0

\* ------------------------------------------------------------- handles
\* the pixel position of each handle of an arc: the centre column and row,
\* displaced by the pixel radius measured along X
HandlePos(f, h) ==
    LET cx == XtoAbsPixel(f.fX1)
        cy == YtoAbsPixel(f.fY1)
        lx == XtoAbsPixel(f.fX1 - f.fR1)
        rx == XtoAbsPixel(f.fX1 + f.fR1)
        r  == Abs(lx - rx) \div 2
    IN  IF h = "top" THEN <<cx, cy + r>>
        ELSE IF h = "bottom" THEN <<cx, cy - r>>
        ELSE IF h = "left" THEN <<lx, cy>>
        ELSE <<rx, cy>>

Near(f, h, px, py) ==
    /\ Abs(px - HandlePos(f, h)[1]) < 10
    /\ Abs(py - HandlePos(f, h)[2]) < 10

\* the first handle near the cursor in the order top, bottom, left, right
Selected(f, px, py) ==
    IF Near(f, "top", px, py) THEN "top"
    ELSE IF Near(f, "bottom", px, py) THEN "bottom"
    ELSE IF Near(f, "left", px, py) THEN "left"
    ELSE IF Near(f, "right", px, py) THEN "right"
    ELSE "move"

\* the handles whose flag is set
Flagged(s) ==
    (IF s.pTop THEN {"top"} ELSE {}) \cup (IF s.pBot THEN {"bottom"} ELSE {})
    \cup (IF s.pL THEN {"left"} ELSE {}) \cup (IF s.pR THEN {"right"} ELSE {})
    \cup (IF s.pINSIDE THEN {"move"} ELSE {})

IconOf(h) ==
    IF h = "top" THEN "kTopSide" ELSE IF h = "bottom" THEN "kBottomSide"
    ELSE IF h = "left" THEN "kLeftSide" ELSE IF h = "right" THEN "kRightSide"
    ELSE "kMove"

\* C16: after every hover and every button or key down event exactly one of
\* the five handle flags is set: that of the first handle, in the order top,
\* bottom, left, right, less than 10 pixels from the cursor on both axes,
\* or move if there is none; the cursor icon set is that handle's.
C16_OneHandleSelected ==
    [][(gPad /\ ev'.op \in DownKinds \cup {"kMouseMotion"})
       => LET sel == Selected(arc'[ev'.a], ev'.x, ev'.y)
          IN  /\ Flagged(st') = {sel}
              /\ cursor' = IconOf(sel)]_vars

\* the cursor was moved near both the top and the left handle
C16_Witness ==
    /\ gPad
    /\ ev.op = "kMouseMotion"
    /\ Near(arc[ev.a], "top", ev.x, ev.y)
    /\ Near(arc[ev.a], "left", ev.x, ev.y)
    /\ Flagged(st) = {"top"}
    /\ cursor = "kTopSide"

\* C17: the centre and radius an interaction sequence commits, and the
\* handle it selects, are those it commits and selects when the working
\* variables held other values as its down event arrived: nothing an
\* earlier sequence left in them is used.
C17_NoDragStateSurvives ==
    [][(gPad /\ ev'.op \in DownKinds \cup MotionKinds \cup {"kButton1Up"})
       => LET h == ExecuteEvent(arc[ev'.a],
                                IF ev'.op \in DownKinds THEN Leftover
                                ELSE shadow,
                                ev'.op, ev'.x, ev'.y, opaque, gPad)
          IN  /\ Geometry(h.f) = Geometry(arc'[ev'.a])
              /\ Flagged(h.s) = Flagged(st')
              /\ <<h.s.px1, h.s.py1, h.s.r1>> = <<st'.px1, st'.py1, st'.r1>>]_vars

\* a second sequence started on an arc whose markers the first had drawn
C17_Witness ==
    /\ gPad /\ ~opaque
    /\ ev.op \in DownKinds
    /\ arc[ev.a].fR1 = 15 * Unit
    /\ gVirtualX.drawn # << >>
    /\ gVirtualX.shown = {}
    /\ st.pTop

\* ------------------------------------------------------- rubber banding
\* how many times a line occurs among the lines drawn
Count(lines, l) == Cardinality({i \in 1..Len(lines) : lines[i] = l})

\* the same lines, each as many times
SameLines(a, b) ==
    /\ Len(a) = Len(b)
    /\ \A i \in 1..Len(a) : Count(a, a[i]) = Count(b, a[i])

\* C18: in non-opaque mode, in a sequence down, motion_1 .. motion_n, the
\* lines a motion event draws again before it draws any new one are exactly
\* the lines the previous event of the sequence drew, each once; so the
\* lines that show after the event are the ones it drew.
C18_XorRubberBand ==
    [][(gPad /\ ~opaque /\ ev'.op \in MotionKinds
        /\ ev.op \in DownKinds \cup MotionKinds /\ ev.a = ev'.a)
       => /\ SameLines(gVirtualX'.erased, gVirtualX.drawn)
          /\ gVirtualX.shown = Toggle({}, gVirtualX.drawn)
                => gVirtualX'.shown = Toggle({}, gVirtualX'.drawn)]_vars

\* C19: after a down event and any number of drag motions, the working
\* pixel radius is the pixel radius at the down event plus the net cursor
\* displacement along the axis of the active handle (+dy for top, -dy for
\* bottom, -dx for left, +dx for right), and on the move handle the working
\* pixel centre is the centre at the down event plus the net displacement,
\* whatever positions the cursor passed through.
C19_DragPathIndependent ==
    (gPad /\ ev.op \in DownKinds \cup MotionKinds /\ phase[ev.a] = "drag")
    => LET dx == ev.x - anchor.x
           dy == ev.y - anchor.y
           f  == arc[ev.a]
       IN  /\ Flagged(st) = Flagged(anchor.s)
           /\ st.r1 = anchor.s.r1
                       + (IF st.pTop THEN dy ELSE 0) - (IF st.pBot THEN dy ELSE 0)
                       - (IF st.pL THEN dx ELSE 0) + (IF st.pR THEN dx ELSE 0)
           /\ st.pINSIDE => /\ st.px1 = anchor.s.px1 + dx
                            /\ st.py1 = anchor.s.py1 + dy
           /\ ~st.pINSIDE => /\ st.px1 = anchor.s.px1
                             /\ st.py1 = anchor.s.py1

\* the top handle was dragged to one place and then on to another
C19_Witness ==
    /\ gPad /\ ~opaque
    /\ ev.op \in MotionKinds
    /\ phase[ev.a] = "drag"
    /\ st.pTop
    /\ \E i \in 1..Len(gVirtualX.erased) : gVirtualX.erased[i].k = "pixels"
    /\ st.r1 # anchor.s.r1
    /\ st.r1 = anchor.s.r1 + (ev.y - anchor.y)

\* C20: a hover event only recomputes the selected handle and sets the
\* cursor icon: it changes no logical field of the arc, does not change the
\* working pixel radius, draws no line and does not rebuild the polyline.
C20_HoverFrame ==
    [][ev'.op = "kMouseMotion"
       => /\ arc' = arc
          /\ st'.r1 = st.r1
          /\ gVirtualX'.erased = << >> /\ gVirtualX'.drawn = << >>
          /\ gVirtualX'.shown = gVirtualX.shown
          /\ fgDefault' = fgDefault]_vars

\* the cursor was moved onto the right handle of an arc whose polyline is
\* not the one its fields call for
C20_Witness ==
    /\ gPad
    /\ ev.op = "kMouseMotion"
    /\ st.pR /\ cursor = "kRightSide"
    /\ ~Current(arc[ev.a])
    /\ st.r1 # Abs(st.pLx - st.pRx) \div 2

\* --------------------------------------------------- click without drag
\* C21: in either drag mode a button down followed at once by a button up
\* on the same arc at the same cursor position, no motion in between,
\* leaves the centre and the radius of the arc equal to what they were
\* before the click.  The down event assigns no field of the arc, so the
\* values before the click are those the up event finds.
C21_ClickIsIdentity ==
    [][(gPad /\ ev.op = "kButton1Down" /\ ev'.op = "kButton1Up"
        /\ ev'.a = ev.a /\ ev'.x = ev.x /\ ev'.y = ev.y)
       => LET f == arc[ev'.a]
              g == arc'[ev'.a]
          IN  g.fX1 = f.fX1 /\ g.fY1 = f.fY1 /\ g.fR1 = f.fR1]_vars

====
